---- MODULE Spec2Model ----
(***************************************************************************)
(* A model of inputs.py (micropython-inputs): debounced digital inputs,    *)
(* pulse counters and moving-average analog inputs, polled by a periodic   *)
(* timer interrupt (Manager.service_inputs) while the main program reads   *)
(* them (InputBase.value, Manager.values, Counter.reset_count).            *)
(*                                                                         *)
(* Every input object is a record holding the attributes its class sets.   *)
(* The timer interrupt runs service_inputs to completion (it preempts the  *)
(* main program and is not itself preempted); the main program runs one    *)
(* statement at a time, and an interrupt is taken between two of its       *)
(* statements only while interrupts are enabled.                           *)
(***************************************************************************)
EXTENDS Integers, Sequences, FiniteSets, TLC

VARIABLES
    constructed,  \* whether Manager.__init__ has run
    inputs,       \* Manager.inputs: the input objects, in the order given
    irq,          \* interrupts enabled (pyb.disable_irq / pyb.enable_irq)
    pc,           \* the main program's position
    caller,       \* who called value(): "main" or "values"
    tgt,          \* index in inputs of the object whose method is running
    irq_state,    \* the local irq_state of value() / reset_count()
    loc,          \* the locals of the running _compute_value
    val,          \* the local val of value()
    exc,          \* the exception the main program's last call raised, if any
    pairs,        \* values(): the (key, value) pairs collected so far
    ticks,        \* history: number of service_inputs invocations
    trace,        \* history: per input, one entry per service_input call
    tick_exc,     \* history: whether the last service_inputs raised
    zeroed,       \* history: per input, how many service_input calls it had had
                  \*          when the main program last set its count to 0
    snap,         \* history: the target object, the number of its service_input
                  \*          calls and its zeroed when the guarded region began
    stamps,       \* history: values(): per entry read so far, ticks and the
                  \*          input object when its guarded region began
    tally         \* history: per input, base: how many service_input calls it
                  \*          had had when reset_count() last ran (0 if never);
                  \*          sum: the sum of the values that value() has returned
                  \*          since, for a Counter with reset_on_read; wrapped:
                  \*          whether its count has wrapped at rollover since

vars == <<constructed, inputs, irq, pc, caller, tgt, irq_state, loc, val, exc,
          pairs, ticks, trace, tick_exc, zeroed, snap, stamps, tally>>

(***************************************************************************)
(* Bounds of the model.                                                    *)
(***************************************************************************)
MaxTicks == 4
MaxMgrTicks == 2
MaxStableReadCount == 3
MaxRollover == 3
MaxBufferSize == 3

(***************************************************************************)
(* Program constants and the values the hardware can deliver.              *)
(***************************************************************************)
ONE_EDGE == 1
BOTH_EDGES == 2
None == "None"
PULL_UP == "PULL_UP"
PULL_NONE == "PULL_NONE"
PinValues == {0, 1}
AdcValues == {3, 100}

(***************************************************************************)
(* Python's integer operators on non-negative integers.                    *)
(***************************************************************************)
RECURSIVE BitAnd(_, _)
BitAnd(a, b) ==
    IF a = 0 \/ b = 0 THEN 0
    ELSE (IF a % 2 = 1 /\ b % 2 = 1 THEN 1 ELSE 0) + 2 * BitAnd(a \div 2, b \div 2)

RECURSIVE BitOr(_, _)
BitOr(a, b) ==
    IF a = 0 THEN b
    ELSE IF b = 0 THEN a
    ELSE (IF a % 2 = 1 \/ b % 2 = 1 THEN 1 ELSE 0) + 2 * BitOr(a \div 2, b \div 2)

ShiftLeft(a, n) == a * 2^n

(***************************************************************************)
(* Constructors.  name_parts is pin_name.split(':'); pull stands for the    *)
(* pyb.Pin object the input holds, which is configured with it.  An object *)
(* does not keep stable_read_count (only the mask made from it): the field *)
(* arg_stable_read_count records the argument for the properties.          *)
(***************************************************************************)
InputBase_init(kind, name_parts, pull, convert_func) ==
    [kind |-> kind,
     pin_name |-> name_parts[1],
     pull |-> pull,
     input_name |-> IF Len(name_parts) > 1 THEN name_parts[2] ELSE None,
     convert_func |-> convert_func]

key_name(self) ==
    IF self.input_name # None /\ self.input_name # ""
    THEN self.input_name ELSE self.pin_name

\* mutant: a mask one bit short of stable_read_count
DigitalBase_init_narrow_mask(base, stable_read_count) ==
    LET mask == 2^(stable_read_count - 1) - 1 IN
    base @@ [arg_stable_read_count |-> stable_read_count,
             mask |-> mask,
             reads |-> IF base.pull = PULL_UP THEN mask ELSE 0,
             cur_val |-> IF base.pull = PULL_UP THEN 1 ELSE 0]

DigitalBase_init(base, stable_read_count) ==
    LET mask == 2^stable_read_count - 1 IN
    base @@ [arg_stable_read_count |-> stable_read_count,
             mask |-> mask,
             reads |-> IF base.pull = PULL_UP THEN mask ELSE 0,
             cur_val |-> IF base.pull = PULL_UP THEN 1 ELSE 0]

Digital_init(name_parts, hl_func, lh_func, pull, stable_read_count, convert_func) ==
    DigitalBase_init(InputBase_init("Digital", name_parts, pull, convert_func),
                     stable_read_count)
    @@ [hl_func |-> hl_func, lh_func |-> lh_func]

Counter_init(name_parts, stable_read_count, edges, reset_on_read, rollover, pull, convert_func) ==
    DigitalBase_init(InputBase_init("Counter", name_parts, pull, convert_func),
                     stable_read_count)
    @@ [edges |-> edges, reset_on_read |-> reset_on_read, rollover |-> rollover,
        count |-> 0]

AnalogBase_init(kind, name_parts, buffer_size, convert_func) ==
    InputBase_init(kind, name_parts, PULL_NONE, convert_func)
    @@ [buflen |-> buffer_size,
        buf |-> [k \in 0..(buffer_size - 1) |-> 0],
        ix |-> 0]

IsDigitalKind(self) == self.kind \in {"Digital", "Counter"}

(***************************************************************************)
(* service_input of each class, for the raw reading `reading` (pin.value() *)
(* or adc.read()).  `outcome` says whether an edge callback invoked by     *)
(* this call returns or raises.  The result holds the object afterwards,   *)
(* what the call did on an edge (fired: "lh" or "hl" for the callback a    *)
(* Digital invoked, "count" for a Counter's increment, "none" otherwise)   *)
(* and whether it raised.                                                  *)
(***************************************************************************)
ShiftIn(self, reading) ==
    BitAnd(BitOr(ShiftLeft(self.reads, 1), reading), self.mask)

Digital_service_input(self, reading, outcome) ==
    LET reads == ShiftIn(self, reading)
        s1 == [self EXCEPT !.reads = reads]
    IN  IF reads # 0 /\ reads # self.mask
        THEN [self |-> s1, fired |-> "none", raised |-> FALSE]
        ELSE LET new_val == BitAnd(reads, 1) IN
             IF new_val = self.cur_val
             THEN [self |-> s1, fired |-> "none", raised |-> FALSE]
             ELSE LET dir == IF new_val > self.cur_val THEN "lh" ELSE "hl"
                      func == IF dir = "lh" THEN self.lh_func ELSE self.hl_func
                  IN  IF func # None /\ outcome = "raises"
                      THEN [self |-> s1, fired |-> dir, raised |-> TRUE]
                      ELSE [self |-> [s1 EXCEPT !.cur_val = new_val],
                            fired |-> IF func # None THEN dir ELSE "none",
                            raised |-> FALSE]

\* mutant: the count is not wrapped at rollover
Increment_no_wrap(self) == self.count + 1

Increment(self) == (self.count + 1) % self.rollover

\* mutant: no early return while the window is not unanimous
Counter_service_input_no_bounce_check(self, reading) ==
    LET reads == ShiftIn(self, reading)
        s1 == [self EXCEPT !.reads = reads]
        new_val == BitAnd(reads, 1)
        Counted(o) == [self |-> o, fired |-> "count", raised |-> FALSE]
        NotCounted(o) == [self |-> o, fired |-> "none", raised |-> FALSE]
    IN  IF new_val = self.cur_val
        THEN NotCounted(s1)
        ELSE IF new_val < self.cur_val \/ self.edges = BOTH_EDGES
        THEN Counted([s1 EXCEPT !.count = Increment(self), !.cur_val = new_val])
        ELSE NotCounted([s1 EXCEPT !.cur_val = new_val])

\* mutant: the stable level is updated only on the edges that are counted
Counter_service_input_level_kept_on_uncounted_edge(self, reading) ==
    LET reads == ShiftIn(self, reading)
        s1 == [self EXCEPT !.reads = reads]
        new_val == BitAnd(reads, 1)
        Counted(o) == [self |-> o, fired |-> "count", raised |-> FALSE]
        NotCounted(o) == [self |-> o, fired |-> "none", raised |-> FALSE]
    IN  IF (reads # 0 /\ reads # self.mask) \/ new_val = self.cur_val
        THEN NotCounted(s1)
        ELSE IF new_val < self.cur_val \/ self.edges = BOTH_EDGES
        THEN Counted([s1 EXCEPT !.count = Increment(self), !.cur_val = new_val])
        ELSE NotCounted(s1)

Counter_service_input(self, reading) ==
    LET reads == ShiftIn(self, reading)
        s1 == [self EXCEPT !.reads = reads]
        Counted(o) == [self |-> o, fired |-> "count", raised |-> FALSE]
        NotCounted(o) == [self |-> o, fired |-> "none", raised |-> FALSE]
    IN  IF reads # 0 /\ reads # self.mask
        THEN NotCounted(s1)
        ELSE LET new_val == BitAnd(reads, 1) IN
             IF new_val = self.cur_val
             THEN NotCounted(s1)
             ELSE IF new_val < self.cur_val
             THEN Counted([s1 EXCEPT !.count = Increment(self), !.cur_val = new_val])
             ELSE IF self.edges = BOTH_EDGES
             THEN Counted([s1 EXCEPT !.count = Increment(self), !.cur_val = new_val])
             ELSE NotCounted([s1 EXCEPT !.cur_val = new_val])

\* mutant: the ring index is not wrapped at the buffer's length
NextIndex_no_wrap(self) == self.ix + 1

NextIndex(self) == (self.ix + 1) % self.buflen

AnalogBase_service_input(self, reading) ==
    [self EXCEPT !.buf = [self.buf EXCEPT ![self.ix] = reading],
                 !.ix = NextIndex(self)]

service_input(self, reading, outcome) ==
    CASE self.kind = "Digital" -> Digital_service_input(self, reading, outcome)
      [] self.kind = "Counter" -> Counter_service_input(self, reading)
      [] OTHER ->
            [self |-> AnalogBase_service_input(self, reading),
             fired |-> "none", raised |-> FALSE]

(***************************************************************************)
(* Manager.service_inputs: the loop over the inputs, from index i on.  A   *)
(* raising callback ends the loop: the inputs after it are not serviced.   *)
(* log holds one history entry per service_input call, in the order of the *)
(* calls: ix is the index of the input, pos the position of the call in    *)
(* this invocation.                                                        *)
(***************************************************************************)
Entry(r, i, pos, reading) ==
    IF IsDigitalKind(r.self)
    THEN [ix |-> i, pos |-> pos, raw |-> reading, fired |-> r.fired,
          raised |-> r.raised, cur_val |-> r.self.cur_val]
    ELSE [ix |-> i, pos |-> pos, raw |-> reading]

\* mutant: the loop catches what a callback raises and goes on
RECURSIVE service_from_catches(_, _, _, _, _)
service_from_catches(inps, i, readings, outcomes, log) ==
    IF i > Len(inps)
    THEN [inputs |-> inps, log |-> log, raised |-> FALSE]
    ELSE LET r == service_input(inps[i], readings[i], outcomes[i])
             after == [inps EXCEPT ![i] = r.self]
             log2 == Append(log, Entry(r, i, Len(log) + 1, readings[i]))
         IN  service_from_catches(after, i + 1, readings, outcomes, log2)

RECURSIVE service_from(_, _, _, _, _)
service_from(inps, i, readings, outcomes, log) ==
    IF i > Len(inps)
    THEN [inputs |-> inps, log |-> log, raised |-> FALSE]
    ELSE LET r == service_input(inps[i], readings[i], outcomes[i])
             after == [inps EXCEPT ![i] = r.self]
             log2 == Append(log, Entry(r, i, Len(log) + 1, readings[i]))
         IN  IF r.raised
             THEN [inputs |-> after, log |-> log2, raised |-> TRUE]
             ELSE service_from(after, i + 1, readings, outcomes, log2)

\* mutant: the loop starts at the second input
service_inputs_from_second(inps, readings, outcomes) ==
    service_from(inps, 2, readings, outcomes, <<>>)

service_inputs(inps, readings, outcomes) ==
    service_from(inps, 1, readings, outcomes, <<>>)

Readings(inps) ==
    {f \in [1..Len(inps) -> PinValues \cup AdcValues] :
        \A i \in 1..Len(inps) :
            f[i] \in (IF IsDigitalKind(inps[i]) THEN PinValues ELSE AdcValues)}

Outcomes(inps) ==
    {f \in [1..Len(inps) -> {"returns", "raises"}] :
        \A i \in 1..Len(inps) :
            inps[i].kind # "Digital" => f[i] = "returns"}

\* the entries of one invocation, each with the number of the invocation
Stamped(log, n) == [k \in 1..Len(log) |-> log[k] @@ [tick |-> n]]

\* input i incremented its count in this invocation and the count wrapped to 0
Wrapped(log, after, i) ==
    /\ after[i].kind = "Counter"
    /\ after[i].count = 0
    /\ \E k \in 1..Len(log) : log[k].ix = i /\ log[k].fired = "count"

TickBound == IF Len(inputs) > 1 THEN MaxMgrTicks ELSE MaxTicks

(***************************************************************************)
(* The timer interrupt: one invocation of Manager.service_inputs.          *)
(***************************************************************************)
Tick ==
    /\ constructed
    /\ irq
    /\ ticks < TickBound
    /\ \E readings \in Readings(inputs), outcomes \in Outcomes(inputs) :
          LET r == service_inputs(inputs, readings, outcomes) IN
          /\ inputs' = r.inputs
          /\ trace' = [i \in 1..Len(inputs) |->
                          trace[i] \o SelectSeq(Stamped(r.log, ticks + 1),
                                                LAMBDA e : e.ix = i)]
          /\ tick_exc' = r.raised
          /\ tally' = [i \in 1..Len(inputs) |->
                          IF Wrapped(r.log, r.inputs, i)
                          THEN [tally[i] EXCEPT !.wrapped = TRUE] ELSE tally[i]]
    /\ ticks' = ticks + 1
    /\ UNCHANGED <<constructed, irq, pc, caller, tgt, irq_state, loc, val, exc,
                   pairs, zeroed, snap, stamps>>

(***************************************************************************)
(* _compute_value of each class, one statement (or one element of a pass   *)
(* over the ring buffer) at a time.  l holds the locals.  The result holds *)
(* the object and the locals afterwards, whether the method has returned   *)
(* (done, with its value val) and whether it raised.                       *)
(* Python's true division and math.sqrt are kept exact: a quotient is the  *)
(* pair Rat(num, den), a square root is Sqrt(radicand).                    *)
(***************************************************************************)
Rat(n, d) == [num |-> n, den |-> d]
Sqrt(q) == [sqrt |-> q]

NoLoc == [phase |-> "none", k |-> 0, acc |-> 0, dev_sq |-> 0, ct |-> 0]
StartLoc == [NoLoc EXCEPT !.phase = "start"]

Step(self, l) == [self |-> self, loc |-> l, done |-> FALSE, val |-> None, raised |-> FALSE]
Return(self, v) == [self |-> self, loc |-> NoLoc, done |-> TRUE, val |-> v, raised |-> FALSE]
Raise(self) == [self |-> self, loc |-> NoLoc, done |-> FALSE, val |-> None, raised |-> TRUE]

\* mutant: the read empties the debounce window
Digital_compute_value_clears_window(self, l) ==
    Return([self EXCEPT !.reads = 0], self.cur_val)

Digital_compute_value(self, l) == Return(self, self.cur_val)

\* mutant: the count is never zeroed by the read
Counter_compute_value_no_reset(self, l) ==
    IF l.phase = "start"
    THEN Step(self, [l EXCEPT !.phase = "read", !.ct = self.count])
    ELSE Return(self, l.ct)

\* mutant: the count is set to 0 before it is read
Counter_compute_value_zero_first(self, l) ==
    IF l.phase = "start"
    THEN Step(IF self.reset_on_read THEN [self EXCEPT !.count = 0] ELSE self,
              [l EXCEPT !.phase = "read"])
    ELSE Return(self, self.count)

Counter_compute_value(self, l) ==
    IF l.phase = "start"
    THEN Step(self, [l EXCEPT !.phase = "read", !.ct = self.count])
    ELSE Return(IF self.reset_on_read THEN [self EXCEPT !.count = 0] ELSE self, l.ct)

\* sum(self._buf), one element per step
SumStep(self, l) == [l EXCEPT !.phase = "sum", !.acc = l.acc + self.buf[l.k], !.k = l.k + 1]

Analog_compute_value(self, l) ==
    IF l.k < self.buflen
    THEN Step(self, SumStep(self, l))
    ELSE Return(self, Rat(l.acc, self.buflen))

\* mutant: the sum of squares is divided by n, not by n - 1
AnalogDeviation_compute_value_population(self, l) ==
    LET n == self.buflen IN
    IF l.phase \in {"start", "sum"}
    THEN IF l.k < n
         THEN Step(self, SumStep(self, l))
         ELSE Step(self, [l EXCEPT !.phase = "dev", !.k = 0, !.dev_sq = 0])
    ELSE IF l.k < n
         THEN Step(self, [l EXCEPT !.dev_sq = l.dev_sq + (n * self.buf[l.k] - l.acc)^2,
                                   !.k = l.k + 1])
         ELSE Return(self, Sqrt(Rat(l.dev_sq, n * n * n)))

\* mean = acc / n, so dev = (n*v - acc) / n and dev*dev = (n*v - acc)^2 / n^2:
\* dev_sq holds the numerator over the common denominator n^2.
AnalogDeviation_compute_value(self, l) ==
    LET n == self.buflen IN
    IF l.phase \in {"start", "sum"}
    THEN IF l.k < n
         THEN Step(self, SumStep(self, l))
         ELSE Step(self, [l EXCEPT !.phase = "dev", !.k = 0, !.dev_sq = 0])
    ELSE IF l.k < n
         THEN Step(self, [l EXCEPT !.dev_sq = l.dev_sq + (n * self.buf[l.k] - l.acc)^2,
                                   !.k = l.k + 1])
         ELSE IF n - 1 = 0
              THEN Raise(self)
              ELSE Return(self, Sqrt(Rat(l.dev_sq, n * n * (n - 1))))

compute_value(self, l) ==
    CASE self.kind = "Digital" -> Digital_compute_value(self, l)
      [] self.kind = "Counter" -> Counter_compute_value(self, l)
      [] self.kind = "Analog" -> Analog_compute_value(self, l)
      [] OTHER -> AnalogDeviation_compute_value(self, l)

\* self.convert_func(val): the user's function, applied
convert(self, v) == IF self.convert_func # None THEN <<self.convert_func, v>> ELSE v

\* mutant: interrupts stay as they were
disable_irq_leaves_enabled(enabled) == enabled

\* pyb.disable_irq(): the interrupt-enable state afterwards (it returns the one before)
disable_irq(enabled) == FALSE

\* MyDict(list of pairs): a later pair replaces an earlier one with the same key
MyDict(ps) ==
    [k \in {ps[j][1] : j \in 1..Len(ps)} |->
        LET last == CHOOSE j \in 1..Len(ps) :
                        /\ ps[j][1] = k
                        /\ \A m \in (j + 1)..Len(ps) : ps[m][1] # k
        IN  ps[last][2]]

(***************************************************************************)
(* InputBase.value(), statement by statement.                              *)
(***************************************************************************)
\* line 127: irq_state = pyb.disable_irq()
enter_value(i, who) ==
    /\ irq_state' = irq
    /\ irq' = disable_irq(irq)
    /\ tgt' = i
    /\ caller' = who
    /\ loc' = StartLoc
    /\ snap' = [self |-> inputs[i], at |-> Len(trace[i]), zeroed |-> zeroed[i]]
    /\ pc' = "compute"

value_call ==
    /\ constructed
    /\ pc = "main"
    /\ \E i \in 1..Len(inputs) : enter_value(i, "main")
    /\ exc' = None
    /\ UNCHANGED <<constructed, inputs, val, pairs, ticks, trace, tick_exc, zeroed, stamps,
                   tally>>

\* line 128: val = self._compute_value(); an exception leaves value() here
compute ==
    /\ pc = "compute"
    /\ LET r == compute_value(inputs[tgt], loc) IN
       /\ inputs' = [inputs EXCEPT ![tgt] = r.self]
       /\ loc' = r.loc
       /\ val' = IF r.done THEN r.val ELSE val
       /\ pc' = IF r.raised THEN "main" ELSE IF r.done THEN "enable" ELSE "compute"
       /\ exc' = IF r.raised THEN "ZeroDivisionError" ELSE exc
       /\ pairs' = IF r.raised THEN <<>> ELSE pairs
       /\ stamps' = IF r.raised THEN <<>> ELSE stamps
       /\ snap' = IF r.raised THEN None ELSE snap
       /\ zeroed' = IF r.done /\ inputs[tgt].kind = "Counter" /\ inputs[tgt].reset_on_read
                    THEN [zeroed EXCEPT ![tgt] = Len(trace[tgt])] ELSE zeroed
    /\ UNCHANGED <<constructed, irq, caller, tgt, irq_state, ticks, trace, tick_exc, tally>>

\* line 129: pyb.enable_irq(irq_state)
enable_irq ==
    /\ pc = "enable"
    /\ irq' = irq_state
    /\ pc' = "return"
    /\ UNCHANGED <<constructed, inputs, caller, tgt, irq_state, loc, val, exc,
                   pairs, ticks, trace, tick_exc, zeroed, snap, stamps, tally>>

\* line 130: return self.convert_func(val) if self.convert_func else val
value_result == convert(inputs[tgt], val)

\* value() returns, to the main program or into the list values() builds
value_return ==
    /\ pc = "return"
    /\ IF caller = "main"
       THEN /\ pc' = "main"
            /\ UNCHANGED pairs
       ELSE /\ pairs' = Append(pairs, <<key_name(inputs[tgt]), value_result>>)
            /\ pc' = "values_loop"
    /\ val' = None
    /\ snap' = None
    /\ tally' = IF inputs[tgt].kind = "Counter" /\ inputs[tgt].reset_on_read
                THEN [tally EXCEPT ![tgt].sum = @ + val] ELSE tally
    /\ UNCHANGED <<constructed, inputs, irq, caller, tgt, irq_state, loc, exc,
                   ticks, trace, tick_exc, zeroed, stamps>>

(***************************************************************************)
(* Manager.values(): the list comprehension calls value() on each input in *)
(* turn, then MyDict is built from the pairs.                              *)
(***************************************************************************)
values_call ==
    /\ constructed
    /\ pc = "main"
    /\ pc' = "values_loop"
    /\ pairs' = <<>>
    /\ stamps' = <<>>
    /\ exc' = None
    /\ UNCHANGED <<constructed, inputs, irq, caller, tgt, irq_state, loc, val,
                   ticks, trace, tick_exc, zeroed, snap, tally>>

values_next ==
    /\ pc = "values_loop"
    /\ Len(pairs) < Len(inputs)
    /\ enter_value(Len(pairs) + 1, "values")
    /\ stamps' = Append(stamps, [tick |-> ticks, self |-> inputs[Len(pairs) + 1]])
    /\ UNCHANGED <<constructed, inputs, val, exc, pairs, ticks, trace, tick_exc, zeroed,
                   tally>>

\* line 54: what values() returns once every input has been read
values_result == MyDict(pairs)

values_done ==
    /\ pc = "values_loop"
    /\ Len(pairs) = Len(inputs)
    /\ pc' = "main"
    /\ pairs' = <<>>
    /\ stamps' = <<>>
    /\ UNCHANGED <<constructed, inputs, irq, caller, tgt, irq_state, loc, val,
                   exc, ticks, trace, tick_exc, zeroed, snap, tally>>

(***************************************************************************)
(* Counter.reset_count(), statement by statement.                          *)
(***************************************************************************)
\* line 269
reset_count_call ==
    /\ constructed
    /\ pc = "main"
    /\ \E i \in 1..Len(inputs) :
          /\ inputs[i].kind = "Counter"
          /\ tgt' = i
          /\ snap' = [self |-> inputs[i], at |-> Len(trace[i]), zeroed |-> zeroed[i]]
    /\ irq_state' = irq
    /\ irq' = disable_irq(irq)
    /\ pc' = "reset_zero"
    /\ exc' = None
    /\ UNCHANGED <<constructed, inputs, caller, loc, val, pairs, ticks, trace,
                   tick_exc, zeroed, stamps, tally>>

\* mutant: the reset empties the debounce window too
reset_count_zero_clears_window ==
    /\ pc = "reset_zero"
    /\ inputs' = [inputs EXCEPT ![tgt].count = 0, ![tgt].reads = 0]
    /\ zeroed' = [zeroed EXCEPT ![tgt] = Len(trace[tgt])]
    /\ tally' = [tally EXCEPT ![tgt] = [base |-> Len(trace[tgt]), sum |-> 0,
                                         wrapped |-> FALSE]]
    /\ pc' = "reset_enable"
    /\ UNCHANGED <<constructed, irq, caller, tgt, irq_state, loc, val, exc,
                   pairs, ticks, trace, tick_exc, snap, stamps>>

\* line 270
reset_count_zero ==
    /\ pc = "reset_zero"
    /\ inputs' = [inputs EXCEPT ![tgt].count = 0]
    /\ zeroed' = [zeroed EXCEPT ![tgt] = Len(trace[tgt])]
    /\ tally' = [tally EXCEPT ![tgt] = [base |-> Len(trace[tgt]), sum |-> 0,
                                         wrapped |-> FALSE]]
    /\ pc' = "reset_enable"
    /\ UNCHANGED <<constructed, irq, caller, tgt, irq_state, loc, val, exc,
                   pairs, ticks, trace, tick_exc, snap, stamps>>

\* line 271
reset_count_enable ==
    /\ pc = "reset_enable"
    /\ irq' = irq_state
    /\ pc' = "main"
    /\ snap' = None
    /\ UNCHANGED <<constructed, inputs, caller, tgt, irq_state, loc, val, exc,
                   pairs, ticks, trace, tick_exc, zeroed, stamps, tally>>

(***************************************************************************)
(* Manager.__getattr__(input_key): the first input whose key_name() is     *)
(* input_key, as its index in inputs (the object itself is returned, not a *)
(* copy); KeyError when the loop ends without a match.                     *)
(***************************************************************************)
\* mutant: a key that no input has gives the first input instead of KeyError
Manager_getattr_default(inps, input_key) ==
    LET hits == {j \in 1..Len(inps) : key_name(inps[j]) = input_key} IN
    IF hits = {} THEN [raised |-> FALSE, ix |-> 1]
    ELSE [raised |-> FALSE, ix |-> CHOOSE j \in hits : \A m \in hits : j <= m]

RECURSIVE getattr_from(_, _, _)
getattr_from(inps, j, input_key) ==
    IF j > Len(inps) THEN [raised |-> TRUE, ix |-> 0]
    ELSE IF key_name(inps[j]) = input_key THEN [raised |-> FALSE, ix |-> j]
    ELSE getattr_from(inps, j + 1, input_key)

Manager_getattr(inps, input_key) == getattr_from(inps, 1, input_key)

\* the keys the main program asks for: keys of inputs, the pin name of an
\* input that has an input name, and a name no input has
InputKeys == {"button1", "Y2", "sensor1_volts", "Y1", "nokey"}

getattr_call ==
    /\ constructed
    /\ pc = "main"
    /\ \E input_key \in InputKeys :
          LET r == Manager_getattr(inputs, input_key) IN
          /\ val' = IF r.raised THEN None ELSE r.ix
          /\ exc' = IF r.raised THEN "KeyError" ELSE None
          /\ snap' = [key |-> input_key, before |-> inputs, tick |-> ticks]
    /\ pc' = "getattr_done"
    /\ UNCHANGED <<constructed, inputs, irq, caller, tgt, irq_state, loc, pairs,
                   ticks, trace, tick_exc, zeroed, stamps, tally>>

\* the main program has the input (or the exception) and goes on
getattr_return ==
    /\ pc = "getattr_done"
    /\ pc' = "main"
    /\ val' = None
    /\ snap' = None
    /\ UNCHANGED <<constructed, inputs, irq, caller, tgt, irq_state, loc, exc,
                   pairs, ticks, trace, tick_exc, zeroed, stamps, tally>>

(***************************************************************************)
(* Specifications.  Each starts from a Manager the program can build and   *)
(* lets the timer interrupt and the main program interleave.               *)
(***************************************************************************)
NoTally == [base |-> 0, sum |-> 0, wrapped |-> FALSE]

MainInit ==
    /\ irq = TRUE
    /\ pc = "main"
    /\ caller = "main"
    /\ tgt = 1
    /\ irq_state = TRUE
    /\ loc = NoLoc
    /\ val = None
    /\ exc = None
    /\ pairs = <<>>
    /\ ticks = 0
    /\ tick_exc = FALSE
    /\ snap = None
    /\ stamps = <<>>

Built(inps) ==
    /\ constructed = TRUE
    /\ inputs = inps
    /\ trace = [i \in 1..Len(inps) |-> <<>>]
    /\ zeroed = [i \in 1..Len(inps) |-> 0]
    /\ tally = [i \in 1..Len(inps) |-> NoTally]

StableReadCounts == 1..MaxStableReadCount
Pulls == {PULL_UP, PULL_NONE}
Funcs == {None, "f"}

\* Manager([Digital(...)])
InitDigital ==
    /\ MainInit
    /\ \E w \in StableReadCounts, pull \in Pulls, hl \in Funcs, lh \in Funcs :
          Built(<<Digital_init(<<"Y1", "button1">>, hl, lh, pull, w, None)>>)

NextDigital == Tick \/ value_call \/ compute \/ enable_irq \/ value_return

SpecDigital == InitDigital /\ [][NextDigital]_vars

\* Manager([Counter(...)])
InitCounter ==
    /\ MainInit
    /\ \E w \in StableReadCounts, pull \in Pulls, edges \in {ONE_EDGE, BOTH_EDGES},
          reset_on_read \in BOOLEAN, rollover \in 1..MaxRollover :
          Built(<<Counter_init(<<"Y2">>, w, edges, reset_on_read, rollover, pull, None)>>)

NextCounter ==
    \/ Tick \/ value_call \/ compute \/ enable_irq \/ value_return
    \/ reset_count_call \/ reset_count_zero \/ reset_count_enable

SpecCounter == InitCounter /\ [][NextCounter]_vars

\* Manager([Analog(...)]) or Manager([AnalogDeviation(...)])
InitAnalog ==
    /\ MainInit
    /\ \E kind \in {"Analog", "AnalogDeviation"}, n \in 1..MaxBufferSize,
          f \in Funcs :
          Built(<<AnalogBase_init(kind, <<"X1", "sensor1_volts">>, n, f)>>)

SpecAnalog == InitAnalog /\ [][NextDigital]_vars

(***************************************************************************)
(* The main program builds a Manager of several inputs and reads them with *)
(* values().  The lists are those of examples.py (with small windows and   *)
(* buffers) and lists in which two inputs have the same key_name().        *)
(***************************************************************************)
Button1 == Digital_init(<<"Y1", "button1">>, "f", "f", PULL_UP, 1, None)
CounterY2 == Counter_init(<<"Y2">>, 1, BOTH_EDGES, TRUE, MaxRollover, PULL_UP, None)
CounterButton1 == Counter_init(<<"Y2", "button1">>, 1, ONE_EDGE, FALSE, MaxRollover, PULL_UP, None)
Sensor1 == AnalogBase_init("Analog", <<"X1", "sensor1_volts">>, 2, "f")

ManagerArgs ==
    {<<Button1, CounterY2, Sensor1>>,
     <<Button1, CounterButton1>>,
     <<Sensor1, CounterY2>>}

InitManager ==
    /\ MainInit
    /\ constructed = FALSE
    /\ inputs = <<>>
    /\ trace = <<>>
    /\ zeroed = <<>>
    /\ tally = <<>>

\* Manager.__init__(inputs): lines 32-35; the timer then calls service_inputs
Manager_init ==
    /\ ~constructed
    /\ \E inps \in ManagerArgs :
          /\ inputs' = inps
          /\ trace' = [i \in 1..Len(inps) |-> <<>>]
          /\ zeroed' = [i \in 1..Len(inps) |-> 0]
          /\ tally' = [i \in 1..Len(inps) |-> NoTally]
    /\ constructed' = TRUE
    /\ UNCHANGED <<irq, pc, caller, tgt, irq_state, loc, val, exc, pairs, ticks,
                   tick_exc, snap, stamps>>

NextManager ==
    \/ Manager_init \/ Tick
    \/ values_call \/ values_next \/ compute \/ enable_irq \/ value_return \/ values_done

SpecManager == InitManager /\ [][NextManager]_vars

\* the main program looks inputs up by key while the timer runs
NextLookup == Manager_init \/ Tick \/ getattr_call \/ getattr_return

SpecLookup == InitManager /\ [][NextLookup]_vars

\* the timer alone, on Managers with the Digital first and in the middle
ServiceArgs == {<<Button1, CounterY2, Sensor1>>, <<Sensor1, Button1, CounterY2>>}

InitService == MainInit /\ \E inps \in ServiceArgs : Built(inps)

SpecService == InitService /\ [][Tick]_vars

\* a Manager of one input of any class
Init == InitDigital \/ InitCounter \/ InitAnalog

Next == NextCounter

Spec == Init /\ [][Next]_vars

\* Manager([Digital(...)]) or Manager([Counter(...)])
InitDebounce == InitDigital \/ InitCounter

SpecDebounce == InitDebounce /\ [][NextCounter]_vars

(***************************************************************************)
(* What the properties below speak of, read off the history.               *)
(***************************************************************************)
\* the level a digital input starts at: the one its pull holds the line at
InitialLevel(self) == IF self.pull = PULL_UP THEN 1 ELSE 0

\* the raw sample of input i's t-th service_input call
RawAt(i, t) == trace[i][t].raw

\* the stable level of input i after its t-th service_input call
LevelAfter(i, t) == IF t = 0 THEN InitialLevel(inputs[i]) ELSE trace[i][t].cur_val

\* the samples a+1..b of input i all equal x
AllRaw(i, a, b, x) == \A k \in (a + 1)..b : RawAt(i, k) = x

\* the window of the last W reads after call t (the initial level standing
\* for the reads before the first) is unanimous at x
WindowAt(i, t, x) ==
    LET W == inputs[i].arg_stable_read_count IN
    /\ AllRaw(i, IF t > W THEN t - W ELSE 0, t, x)
    /\ t < W => x = InitialLevel(inputs[i])

\* input i is at a stable level after call t: its window is unanimous at
\* its stable value
StableAt(i, t) == WindowAt(i, t, LevelAfter(i, t))

\* the samples a+1..b of input i alternate
Alternating(i, a, b) == \A k \in (a + 2)..b : RawAt(i, k) # RawAt(i, k - 1)

DigitalInputs == {i \in 1..Len(inputs) : IsDigitalKind(inputs[i])}

(***************************************************************************)
(* C1.  The stable level of a Digital or Counter input changes only in a   *)
(* service_input call after which the last stable_read_count raw samples   *)
(* all equal the new level, all of them samples really read (the window    *)
(* starts filled with the initial level); between calls it does not        *)
(* change, and a Digital's value() returns it.                             *)
(***************************************************************************)
StableValueChangesOnlyOnUnanimousWindow ==
    \A i \in DigitalInputs :
        LET W == inputs[i].arg_stable_read_count IN
        /\ inputs[i].cur_val = LevelAfter(i, Len(trace[i]))
        /\ \A t \in 1..Len(trace[i]) :
              LevelAfter(i, t) # LevelAfter(i, t - 1)
              => /\ t >= W
                 /\ AllRaw(i, t - W, t, LevelAfter(i, t))
        /\ (pc = "enable" /\ tgt = i /\ inputs[i].kind = "Digital")
              => val = snap.self.cur_val /\ val = inputs[i].cur_val

\* a level change after a bounce, on a window of more than one sample
StableValueChangedAfterBounce ==
    \E i \in DigitalInputs :
        /\ inputs[i].arg_stable_read_count >= 2
        /\ \E t \in 1..Len(trace[i]) :
              /\ t > inputs[i].arg_stable_read_count
              /\ LevelAfter(i, t) # LevelAfter(i, t - 1)

(***************************************************************************)
(* C3.  From a stable level, an alternating raw sequence of fewer than     *)
(* stable_read_count samples produces no edge: in none of its calls is a   *)
(* callback invoked or a count made, and the stable level stays.           *)
(***************************************************************************)
ShortBounceProducesNoEdge ==
    \A i \in DigitalInputs :
        \A t0 \in 0..Len(trace[i]) :
            \A n \in 1..(inputs[i].arg_stable_read_count - 1) :
                (/\ t0 + n <= Len(trace[i])
                 /\ StableAt(i, t0)
                 /\ Alternating(i, t0, t0 + n))
                => \A t \in (t0 + 1)..(t0 + n) :
                      /\ trace[i][t].fired = "none"
                      /\ LevelAfter(i, t) = LevelAfter(i, t0)

\* a bounce of two samples that starts away from the stable level
ShortBounceHappened ==
    \E i \in DigitalInputs :
        \E t0 \in 0..Len(trace[i]) :
            /\ inputs[i].arg_stable_read_count >= 3
            /\ t0 + 2 <= Len(trace[i])
            /\ StableAt(i, t0)
            /\ Alternating(i, t0, t0 + 2)
            /\ RawAt(i, t0 + 1) # LevelAfter(i, t0)

(***************************************************************************)
(* C2.  From a stable level v, stable_read_count consecutive samples of    *)
(* the other level make a Digital input invoke exactly one callback: none  *)
(* in the first W-1 calls, the one of the matching direction in the W-th,  *)
(* after which the stable level (what value() returns) is the new one, and *)
(* none in later calls for as long as the samples stay at that level.      *)
(***************************************************************************)
EdgeRun(i, t0) ==
    LET W == inputs[i].arg_stable_read_count
        x == 1 - LevelAfter(i, t0)
    IN  /\ inputs[i].kind = "Digital"
        /\ StableAt(i, t0)
        /\ t0 + W <= Len(trace[i])
        /\ AllRaw(i, t0, t0 + W, x)
        /\ (IF x = 1 THEN inputs[i].lh_func ELSE inputs[i].hl_func) # None

OneCallbackFor(i, t0) ==
    LET W == inputs[i].arg_stable_read_count
        x == 1 - LevelAfter(i, t0)
    IN  /\ \A t \in (t0 + 1)..(t0 + W - 1) : trace[i][t].fired = "none"
        /\ trace[i][t0 + W].fired = (IF x = 1 THEN "lh" ELSE "hl")
        /\ LevelAfter(i, t0 + W) = x
        /\ \A m \in (t0 + W + 1)..Len(trace[i]) :
              AllRaw(i, t0 + W, m, x) => trace[i][m].fired = "none"

WSamplesFireExactlyOneCallback ==
    \A i \in DigitalInputs :
        \A t0 \in 0..Len(trace[i]) :
            EdgeRun(i, t0) => OneCallbackFor(i, t0)

\* the same, for the runs whose callback returned: this much the code does
WSamplesFireExactlyOneCallbackThatReturns ==
    \A i \in DigitalInputs :
        \A t0 \in 0..Len(trace[i]) :
            (/\ EdgeRun(i, t0)
             /\ ~trace[i][t0 + inputs[i].arg_stable_read_count].raised)
            => OneCallbackFor(i, t0)

\* a run of W opposite samples, its callback returned, one more sample after
EdgeRunWithReturningCallback ==
    \E i \in DigitalInputs :
        \E t0 \in 0..Len(trace[i]) :
            LET W == inputs[i].arg_stable_read_count IN
            /\ W >= 2
            /\ EdgeRun(i, t0)
            /\ ~trace[i][t0 + W].raised
            /\ Len(trace[i]) > t0 + W
            /\ RawAt(i, t0 + W + 1) = RawAt(i, t0 + W)

(***************************************************************************)
(* The debounced signal, defined from the raw samples alone: the level     *)
(* after sample t is the level before it, unless the last W samples all    *)
(* equal the other level.                                                  *)
(***************************************************************************)
RECURSIVE DebouncedLevels(_, _)
DebouncedLevels(i, n) ==    \* the levels after samples 1..n, as a sequence
    IF n = 0 THEN <<>>
    ELSE LET W == inputs[i].arg_stable_read_count
             levels == DebouncedLevels(i, n - 1)
             before == IF n = 1 THEN InitialLevel(inputs[i]) ELSE levels[n - 1]
         IN  Append(levels, IF n >= W /\ AllRaw(i, n - W, n, 1 - before)
                            THEN 1 - before ELSE before)

\* the calls in a+1..b at which the signal with these levels goes to level x
EdgesTo(i, levels, a, b, x) ==
    {t \in (a + 1)..b :
        /\ levels[t] = x
        /\ (IF t = 1 THEN InitialLevel(inputs[i]) ELSE levels[t - 1]) # x}

\* the calls in a+1..b in which the counter incremented its count
CountedIn(i, a, b) == {t \in (a + 1)..b : trace[i][t].fired = "count"}

Counters == {i \in 1..Len(inputs) : inputs[i].kind = "Counter"}

(***************************************************************************)
(* C4.  A Counter increments on every debounced falling edge, and on every *)
(* debounced rising edge when edges = BOTH_EDGES, and in no other call;    *)
(* its stable level follows the debounced signal in both modes; so its     *)
(* count is, modulo rollover, the number of such edges since the count     *)
(* was last set to 0.                                                      *)
(***************************************************************************)
CounterCountsDebouncedEdges ==
    \A i \in Counters :
        LET n == Len(trace[i])
            levels == DebouncedLevels(i, n)
            counted(a) == EdgesTo(i, levels, a, n, 0)
                            \cup (IF inputs[i].edges = BOTH_EDGES
                                  THEN EdgesTo(i, levels, a, n, 1) ELSE {})
        IN  /\ inputs[i].cur_val = (IF n = 0 THEN InitialLevel(inputs[i]) ELSE levels[n])
            /\ CountedIn(i, 0, n) = counted(0)
            /\ inputs[i].count = Cardinality(counted(zeroed[i])) % inputs[i].rollover

\* a rising and then a falling edge with ONE_EDGE: two edges, a count of 1
OneEdgeCountedOfTwo ==
    \E i \in Counters :
        /\ inputs[i].edges = ONE_EDGE
        /\ inputs[i].rollover > 1
        /\ zeroed[i] = 0
        /\ EdgesTo(i, DebouncedLevels(i, Len(trace[i])), 0, Len(trace[i]), 1) # {}
        /\ EdgesTo(i, DebouncedLevels(i, Len(trace[i])), 0, Len(trace[i]), 0) # {}
        /\ inputs[i].count = 1

(***************************************************************************)
(* C5.  0 <= count < rollover in every state, and the count is the number  *)
(* of increments since it was last set to 0, modulo rollover: it steps     *)
(* from rollover - 1 to 0, so rollover increments from 0 give 0 again.     *)
(***************************************************************************)
CountStaysBelowRollover ==
    \A i \in Counters :
        /\ 0 <= inputs[i].count
        /\ inputs[i].count < inputs[i].rollover
        /\ inputs[i].count =
              Cardinality(CountedIn(i, zeroed[i], Len(trace[i]))) % inputs[i].rollover

\* rollover (at least 2) increments since the count was 0: it is 0 again
CountRolledOver ==
    \E i \in Counters :
        /\ inputs[i].rollover >= 2
        /\ Cardinality(CountedIn(i, zeroed[i], Len(trace[i]))) = inputs[i].rollover
        /\ inputs[i].count = 0

(***************************************************************************)
(* C6.  Counter.value() returns the count the counter had when the guarded *)
(* region began, which is the number of increments (modulo rollover) since *)
(* the count was last set to 0; no service_input call takes effect inside  *)
(* the region; at its end the count is 0 when reset_on_read is set and     *)
(* unchanged when it is not.                                               *)
(***************************************************************************)
CounterReadReturnsCountAndResets ==
    (pc \in {"compute", "enable", "return"} /\ tgt \in Counters)
    => LET self == inputs[tgt] IN
       /\ pc \in {"compute", "enable"} => Len(trace[tgt]) = snap.at
       /\ pc = "enable"
             => self.count = (IF self.reset_on_read THEN 0 ELSE snap.self.count)
       /\ pc \in {"enable", "return"}
             => /\ val = snap.self.count
                /\ val = Cardinality(CountedIn(tgt, snap.zeroed, snap.at)) % self.rollover
                /\ self.convert_func = None => value_result = val

\* a read with reset_on_read that returns a count of at least 1 and leaves 0
ConsumingReadHappened ==
    /\ pc = "enable"
    /\ tgt \in Counters
    /\ inputs[tgt].reset_on_read
    /\ val >= 1
    /\ inputs[tgt].count = 0

(***************************************************************************)
(* C7.  The ring index stays in 0..buffer_size-1 and advances by one       *)
(* modulo buffer_size per service_input call; once buffer_size samples     *)
(* have been read the buffer holds exactly the last buffer_size samples,   *)
(* and Analog.value() is their sum divided by buffer_size (and is returned *)
(* as it is when there is no convert_func).                                *)
(***************************************************************************)
RECURSIVE SumRaw(_, _, _)
SumRaw(i, a, b) ==      \* the sum of the raw samples a+1..b of input i
    IF b <= a THEN 0 ELSE RawAt(i, b) + SumRaw(i, a, b - 1)

AnalogInputs == {i \in 1..Len(inputs) : ~IsDigitalKind(inputs[i])}

MovingAverageOfLastSamples ==
    /\ \A i \in AnalogInputs :
          LET n == inputs[i].buflen
              m == Len(trace[i])
          IN  /\ inputs[i].ix \in 0..(n - 1)
              /\ inputs[i].ix = m % n
              /\ m >= n => \A t \in (m - n + 1)..m :
                              inputs[i].buf[(t - 1) % n] = RawAt(i, t)
    /\ (/\ pc \in {"enable", "return"}
        /\ inputs[tgt].kind = "Analog"
        /\ snap.at >= inputs[tgt].buflen)
       => /\ val = Rat(SumRaw(tgt, snap.at - inputs[tgt].buflen, snap.at),
                       inputs[tgt].buflen)
          /\ inputs[tgt].convert_func = None => value_result = val

\* a read of a buffer of two or more slots that has wrapped, samples differing
AverageReadAfterWrap ==
    /\ pc = "enable"
    /\ inputs[tgt].kind = "Analog"
    /\ inputs[tgt].convert_func = None
    /\ inputs[tgt].buflen >= 2
    /\ snap.at > inputs[tgt].buflen
    /\ RawAt(tgt, snap.at) # RawAt(tgt, snap.at - 1)
    /\ RawAt(tgt, 1) # RawAt(tgt, snap.at)

(***************************************************************************)
(* C8.  value() is never torn: from the start of its guarded region to the *)
(* end no service_input call of the input takes effect (interrupts are     *)
(* off, and the object changes only by the read's own zeroing of a         *)
(* count), and the value computed is the value of the object as it was at  *)
(* the one instant the region began.                                       *)
(***************************************************************************)
RECURSIVE SumBuf(_, _)
SumBuf(o, k) ==         \* the sum of slots 0..k-1 of the ring buffer of o
    IF k = 0 THEN 0 ELSE o.buf[k - 1] + SumBuf(o, k - 1)

RECURSIVE SumSqDev(_, _)
SumSqDev(o, k) ==       \* the sum over slots 0..k-1 of (n*v - sum)^2
    IF k = 0 THEN 0
    ELSE (o.buflen * o.buf[k - 1] - SumBuf(o, o.buflen))^2 + SumSqDev(o, k - 1)

\* the value of object o, taken at one instant
ValueOf(o) ==
    CASE o.kind = "Digital" -> o.cur_val
      [] o.kind = "Counter" -> o.count
      [] o.kind = "Analog"  -> Rat(SumBuf(o, o.buflen), o.buflen)
      [] OTHER -> Sqrt(Rat(SumSqDev(o, o.buflen),
                           o.buflen * o.buflen * (o.buflen - 1)))

ReadIsNeverTorn ==
    /\ pc \in {"compute", "enable"}
          => /\ ~irq
             /\ Len(trace[tgt]) = snap.at
             /\ inputs[tgt] = snap.self
                \/ /\ inputs[tgt].kind = "Counter"
                   /\ inputs[tgt].reset_on_read
                   /\ inputs[tgt] = [snap.self EXCEPT !.count = 0]
    /\ pc \in {"enable", "return"} => val = ValueOf(snap.self)

\* a deviation has been computed over a buffer whose samples differ
DeviationReadOfUnequalSamples ==
    /\ pc = "enable"
    /\ inputs[tgt].kind = "AnalogDeviation"
    /\ inputs[tgt].buflen >= 2
    /\ snap.at >= 1
    /\ val.sqrt.num > 0

\* values() has read every input and is about to build its mapping
ValuesDone == pc = "values_loop" /\ Len(pairs) = Len(inputs)

(***************************************************************************)
(* C9.  The mapping Manager.values() returns is read in one guarded pass:  *)
(* no tick takes effect between the read of the first input and the read   *)
(* of the last, so all its values are those after the same tick.           *)
(***************************************************************************)
ValuesReadInOneGuardedPass ==
    ValuesDone => \A j, k \in 1..Len(stamps) : stamps[j].tick = stamps[k].tick

(***************************************************************************)
(* What values() does deliver (lines 50-54 with 127-129).  Every entry of  *)
(* the mapping is read in a guarded region of its own: the pair of input   *)
(* j holds its key_name() and the (converted)                              *)
(* value its object had at the one instant its region began; the regions   *)
(* follow one another in the order of the inputs, and ticks may take       *)
(* effect between them.  With distinct keys the mapping holds each entry   *)
(* under its key.                                                          *)
(***************************************************************************)
Converted(o, v) == IF o.convert_func = None THEN v ELSE <<o.convert_func, v>>

ValuesEntriesAreEachUntorn ==
    pc \in {"values_loop", "compute", "enable", "return"}
    => /\ Len(pairs) <= Len(stamps)
       /\ Len(stamps) <= Len(inputs)
       /\ \A j \in 1..Len(stamps) :
             /\ stamps[j].tick <= ticks
             /\ j > 1 => stamps[j - 1].tick <= stamps[j].tick
       /\ \A j \in 1..Len(pairs) :
             /\ pairs[j][1] = key_name(inputs[j])
             /\ pairs[j][2] = Converted(inputs[j], ValueOf(stamps[j].self))
       /\ (/\ ValuesDone
           /\ \A j, k \in 1..Len(inputs) :
                 j # k => key_name(inputs[j]) # key_name(inputs[k]))
          => /\ DOMAIN values_result = {key_name(inputs[j]) : j \in 1..Len(inputs)}
             /\ \A j \in 1..Len(inputs) :
                   values_result[key_name(inputs[j])] = pairs[j][2]

\* a finished values() of three inputs with a tick between two of its reads
ValuesSpannedATick ==
    /\ ValuesDone
    /\ Len(inputs) = 3
    /\ stamps[1].tick < stamps[3].tick

(***************************************************************************)
(* C10.  No Manager exists in which two inputs have the same key_name():   *)
(* every constructed Manager has distinct keys, and values() returns one   *)
(* entry per input.                                                        *)
(***************************************************************************)
ManagerKeysAreDistinct ==
    /\ constructed
          => \A j, k \in 1..Len(inputs) :
                j # k => key_name(inputs[j]) # key_name(inputs[k])
    /\ ValuesDone => Cardinality(DOMAIN values_result) = Len(inputs)

(***************************************************************************)
(* C11.  Manager attribute lookup: for a key no input has it raises        *)
(* KeyError and returns nothing; for a key some input has it returns an    *)
(* input whose key_name() is that key (the first such); and it changes no  *)
(* input.                                                                  *)
(***************************************************************************)
LookupFindsInputOrRaises ==
    pc = "getattr_done"
    => LET hits == {j \in 1..Len(inputs) : key_name(inputs[j]) = snap.key} IN
       /\ hits = {} => exc = "KeyError" /\ val = None
       /\ hits # {} => /\ exc = None
                       /\ val \in hits
                       /\ \A j \in hits : val <= j
       /\ snap.tick = ticks => inputs = snap.before

\* after a tick, a lookup by the pin name of an input that has an input name
LookupOfMissingKeyRaised ==
    /\ pc = "getattr_done"
    /\ ticks >= 1
    /\ snap.key = "Y1"
    /\ \E j \in 1..Len(inputs) : inputs[j].pin_name = "Y1"
    /\ exc = "KeyError"

(***************************************************************************)
(* C12.  An AnalogDeviation with buffer_size < 2 is rejected when it is    *)
(* constructed, so that value() on a deviation input that exists never     *)
(* fails with a division by zero: no call of the main program ends in      *)
(* ZeroDivisionError.                                                      *)
(***************************************************************************)
DeviationValueNeverDividesByZero == exc # "ZeroDivisionError"

(***************************************************************************)
(* What one invocation of service_inputs did, read off the history.        *)
(***************************************************************************)
\* input i was serviced in invocation n
ServicedIn(i, n) == \E t \in 1..Len(trace[i]) : trace[i][t].tick = n

\* a callback of input j raised in invocation n
RaisedIn(j, n) ==
    /\ inputs[j].kind = "Digital"
    /\ \E t \in 1..Len(trace[j]) : trace[j][t].tick = n /\ trace[j][t].raised

(***************************************************************************)
(* C13.  Every invocation of service_inputs calls service_input on every   *)
(* input exactly once, in the order of the list: the call on input i is    *)
(* the i-th call of its invocation, and after k invocations every input    *)
(* has had exactly k calls, the t-th of them in invocation t.              *)
(***************************************************************************)
EveryInputServicedOncePerTick ==
    \A i \in 1..Len(inputs) :
        /\ Len(trace[i]) = ticks
        /\ \A t \in 1..Len(trace[i]) :
              trace[i][t].tick = t /\ trace[i][t].pos = i

(***************************************************************************)
(* C13, amended.  Every invocation calls service_input on the inputs in    *)
(* the order of the list, each at most once, and stops at the first input  *)
(* whose callback raises: input i is serviced in invocation n exactly when *)
(* no callback of an input before it raised in n, and its call is then the *)
(* i-th of the invocation (so every input before it has been sampled and   *)
(* has run its callback).  After k invocations of which none raised every  *)
(* input has had exactly k calls.                                          *)
(***************************************************************************)
InputsServicedInOrderUntilARaise ==
    \A i \in 1..Len(inputs) :
        /\ \A t \in 1..Len(trace[i]) :
              /\ trace[i][t].pos = i
              /\ trace[i][t].tick \in 1..ticks
              /\ t > 1 => trace[i][t - 1].tick < trace[i][t].tick
        /\ \A n \in 1..ticks :
              ServicedIn(i, n) <=> ~\E j \in 1..(i - 1) : RaisedIn(j, n)
        /\ (\A n \in 1..ticks : \A j \in 1..Len(inputs) : ~RaisedIn(j, n))
              => Len(trace[i]) = ticks

\* the callback of the second of three inputs raised in the first
\* invocation, none in the second: the third input has had one call only
TickStoppedAtSecondInput ==
    /\ Len(inputs) = 3
    /\ ticks = 2
    /\ RaisedIn(2, 1)
    /\ Len(trace[1]) = 2
    /\ Len(trace[2]) = 2
    /\ Len(trace[3]) = 1
    /\ trace[3][1].tick = 2

(***************************************************************************)
(* C14.  An exception raised by an edge callback is caught neither by the  *)
(* input nor by the loop of service_inputs: the invocation ends there,     *)
(* servicing no further input, and raises to its caller.                   *)
(***************************************************************************)
CallbackExceptionPropagates ==
    /\ tick_exc <=> (ticks >= 1 /\ \E j \in 1..Len(inputs) : RaisedIn(j, ticks))
    /\ \A j \in 1..Len(inputs) : \A n \in 1..ticks :
          RaisedIn(j, n)
          => \A i \in 1..Len(inputs) : \A t \in 1..Len(trace[i]) :
                trace[i][t].tick = n => trace[i][t].pos <= j

\* the last invocation raised out of the callback of the second of three
\* inputs, after an invocation in which every input was serviced
TickRaisedToCaller ==
    /\ tick_exc
    /\ Len(inputs) = 3
    /\ ticks = 2
    /\ RaisedIn(2, 2)
    /\ ServicedIn(3, 1)
    /\ ~ServicedIn(3, 2)

(***************************************************************************)
(* C15.  The fields of an input are written by the tick only: no step of   *)
(* the main program (value(), values(), reset_count()) changes an input.   *)
(***************************************************************************)
OnlyTheTickWritesInputs == [][ticks' = ticks => inputs' = inputs]_vars

(***************************************************************************)
(* C15, amended.  The debounce window, the stable level, the ring buffer   *)
(* and its index are written by the tick only.  The count of a Counter is  *)
(* written by the tick and also by the main program, which sets it to 0    *)
(* (value() with reset_on_read, reset_count()) and does so only with       *)
(* interrupts disabled; the main program writes nothing else.              *)
(***************************************************************************)
MainProgramWritesOnlyTheCount ==
    [][ticks' = ticks
       => \A i \in 1..Len(inputs) :
             \/ inputs'[i] = inputs[i]
             \/ /\ inputs[i].kind = "Counter"
                /\ ~irq
                /\ pc \in {"compute", "reset_zero"}
                /\ inputs'[i] = [inputs[i] EXCEPT !.count = 0]]_vars

\* reset_count() has just set a count of at least 1 to 0
ResetCountWroteTheCount ==
    /\ pc = "reset_enable"
    /\ snap.self.count >= 1
    /\ inputs[tgt].count = 0

(***************************************************************************)
(* C16.  AnalogDeviation.value() is the sample standard deviation with     *)
(* Bessel's correction of the n = buffer_size values in the ring buffer:   *)
(* it is the square root of a quotient q with q * (n - 1) = the sum of the *)
(* squared deviations from the mean = sum(v^2) - sum(v)^2 / n.  Equal      *)
(* values give 0; a buffer of two holding 0 and 100 gives q = 5000.        *)
(* Quotients are exact: q = num / den, and the equations are multiplied    *)
(* out.                                                                    *)
(***************************************************************************)
RECURSIVE SumSq(_, _)
SumSq(o, k) ==          \* the sum of the squares of slots 0..k-1 of the buffer of o
    IF k = 0 THEN 0 ELSE o.buf[k - 1] * o.buf[k - 1] + SumSq(o, k - 1)

DeviationIsBesselCorrected ==
    (pc \in {"enable", "return"} /\ inputs[tgt].kind = "AnalogDeviation")
    => LET o == snap.self
           n == o.buflen
           S == SumBuf(o, n)
           q == val.sqrt
       IN  /\ n >= 2
           /\ q.den = n * n * (n - 1)
           \* q * (n - 1) = sum of (v - S/n)^2, times n^2
           /\ q.num * (n - 1) * n * n = q.den * SumSqDev(o, n)
           \* q * (n - 1) = sum(v^2) - S^2 / n, times n
           /\ q.num * (n - 1) * n = q.den * (n * SumSq(o, n) - S * S)
           /\ (\A k \in 0..(n - 1) : o.buf[k] = o.buf[0]) => q.num = 0
           /\ (n = 2 /\ {o.buf[0], o.buf[1]} = {0, 100}) => q.num = 5000 * q.den

\* the deviation of a buffer of two that holds 0 and 100 has been computed
DeviationOfZeroAndHundred ==
    /\ pc = "enable"
    /\ inputs[tgt].kind = "AnalogDeviation"
    /\ inputs[tgt].buflen = 2
    /\ {inputs[tgt].buf[0], inputs[tgt].buf[1]} = {0, 100}
    /\ val.sqrt.num = 5000 * val.sqrt.den

(***************************************************************************)
(* C17.  reset_count() sets the count to 0 and leaves the debounce window  *)
(* and the stable level as they were; no service_input call takes effect   *)
(* between its disabling and its enabling of interrupts, so an increment   *)
(* is either before the reset, and cleared, or after it, and kept: the     *)
(* count is then the number of increments since the reset (modulo          *)
(* rollover).                                                              *)
(***************************************************************************)
ResetCountZeroesTheCountOnly ==
    /\ pc \in {"reset_zero", "reset_enable"}
          => /\ ~irq
             /\ Len(trace[tgt]) = snap.at
             /\ pc = "reset_zero" => inputs[tgt] = snap.self
             /\ pc = "reset_enable"
                   => /\ inputs[tgt] = [snap.self EXCEPT !.count = 0]
                      /\ inputs[tgt].reads = snap.self.reads
                      /\ inputs[tgt].cur_val = snap.self.cur_val
                      /\ tally[tgt].base = snap.at
    /\ \A i \in Counters :
          (~inputs[i].reset_on_read /\ ~(pc = "reset_zero" /\ tgt = i))
          => inputs[i].count =
                Cardinality(CountedIn(i, tally[i].base, Len(trace[i])))
                   % inputs[i].rollover

\* an edge counted, then reset_count(), then one more edge: the count is 1
CountedUpFromZeroAfterReset ==
    \E i \in Counters :
        /\ pc = "main"
        /\ ~inputs[i].reset_on_read
        /\ inputs[i].rollover >= 2
        /\ tally[i].base >= 1
        /\ CountedIn(i, 0, tally[i].base) # {}
        /\ Cardinality(CountedIn(i, tally[i].base, Len(trace[i]))) = 1
        /\ inputs[i].count = 1

(***************************************************************************)
(* C18.  value() and reset_count() leave the interrupt-enable state as it  *)
(* was before the call on every exit path, also when the value             *)
(* computation raises: whenever the main program is outside these calls,   *)
(* interrupts are enabled as they were at the start, and ticks go on.      *)
(***************************************************************************)
InterruptStateRestoredOnEveryExit == pc = "main" => irq

(***************************************************************************)
(* C19.  A Digital input invokes the callback of a direction at most once  *)
(* per debounced transition, whether the callback returns or raises:       *)
(* between two invocations of the callback of one direction the stable     *)
(* value has changed in the opposite direction.                            *)
(***************************************************************************)
\* the level the callback of direction d announces
LevelOf(d) == IF d = "lh" THEN 1 ELSE 0

\* in call t the stable level of input i went to level x
ChangedTo(i, t, x) == LevelAfter(i, t) = x /\ LevelAfter(i, t - 1) # x

CallbackAtMostOncePerTransition ==
    \A i \in DigitalInputs :
        \A t1, t2 \in 1..Len(trace[i]) :
            (/\ t1 < t2
             /\ trace[i][t1].fired \in {"lh", "hl"}
             /\ trace[i][t2].fired = trace[i][t1].fired)
            => \E t \in (t1 + 1)..(t2 - 1) :
                  ChangedTo(i, t, 1 - LevelOf(trace[i][t1].fired))

(***************************************************************************)
(* C20.  For a Counter with reset_on_read no counted edge is lost or       *)
(* reported twice: as long as its count has not wrapped at rollover, the   *)
(* values value() has returned since construction (or since the last       *)
(* reset_count()), plus the value a value() in progress has taken and not  *)
(* yet returned, plus the current count, add up to the number of           *)
(* increments since then.                                                  *)
(***************************************************************************)
\* the count a running value() of input i has taken and not yet returned
TakenNotReturned(i) ==
    IF tgt = i /\ pc \in {"enable", "return"} THEN val ELSE 0

NoCountedEdgeLostOrReportedTwice ==
    \A i \in Counters :
        (inputs[i].reset_on_read /\ ~tally[i].wrapped)
        => tally[i].sum + TakenNotReturned(i) + inputs[i].count
              = Cardinality(CountedIn(i, tally[i].base, Len(trace[i])))

\* two reads have each returned one edge and a third edge has been counted
EdgesReportedOverTwoReads ==
    \E i \in Counters :
        /\ pc = "main"
        /\ inputs[i].reset_on_read
        /\ ~tally[i].wrapped
        /\ tally[i].sum = 2
        /\ zeroed[i] >= 2
        /\ inputs[i].count = 1
        /\ Cardinality(CountedIn(i, 0, 1)) = 1

====
